---- MODULE Spec2Model ----
(***************************************************************************)
(* Gold Nightmare analysis service: authentication and daily quota         *)
(* (gold_bot/auth_manager.py, gold_bot/models.py), admin operations and    *)
(* audit log (gold_bot/admin_manager.py), the gold price manager           *)
(* (gold_bot/gold_price.py), the analysis cache (gold_bot/cache.py,        *)
(* gold_bot/ai_manager.py) and the /analyze handler (backend/server.py).   *)
(*                                                                         *)
(* Strings that the code inspects character by character (emails,          *)
(* passwords, salts) are tuples of one-character strings.  Dates are day   *)
(* numbers (clock \div SecondsPerDay), the value strftime("%Y-%m-%d")      *)
(* is one-to-one with.  None is NoDate / NoTime / NoUser where the field   *)
(* is numeric.                                                             *)
(***************************************************************************)
EXTENDS Integers, Sequences, FiniteSets, TLC

VARIABLES
    clock,            \* wall clock (datetime.utcnow / time.time), seconds
    users,            \* db.users: user_id -> stored document
    user_counter,     \* AuthManager.user_counter
    reg,              \* register_user coroutines in flight
    loginResp,        \* UserAuthResponse of the last login_user call
    sess,             \* quota-gated analysis runs in flight
    adm,              \* the admin operation in flight
    analysis_logs,    \* db.analysis_logs, in insertion order
    daily_summaries,  \* db.daily_summaries: <<user_id, date>> -> document
    gold_cache,       \* GoldPriceManager.gold_cache
    pcall,            \* get_current_price coroutines in flight
    last_event,       \* history: latest start or return of get_current_price
    memory_cache,     \* InMemoryCache._data: key -> [value, expires]
    req,              \* /analyze requests in flight
    managers,         \* server.py: how many component managers startup assigned
    http,             \* the last HTTP exchange of the other routes, and history
    cache_log,        \* history: the last set/delete per key, the last get
    janitor           \* CacheManager._cleanup_task, and whether close() ran

vars == <<clock, users, user_counter, reg, loginResp, sess, adm,
          analysis_logs, daily_summaries, gold_cache, pcall, last_event,
          memory_cache, req, managers, http, cache_log, janitor>>

authVars  == <<users, user_counter, reg, loginResp>>
auditVars == <<analysis_logs, daily_summaries>>
priceVars == <<gold_cache, pcall, last_event>>
webVars   == <<managers, http, cache_log, janitor>>

---------------------------------------------------------------------------
(* Bounds of the model *)

NumRegProcs == 2       \* register_user calls (each may run concurrently)
MaxDay == 1            \* last calendar day the clock reaches
MaxTicks == 3          \* clock ticks within one day
NumSessions == 2       \* quota-gated analysis runs

(* Program constants *)

FirstUserId == 1000
BasicDailyLimit == 1
PremiumDailyLimit == 5
Unlimited == -1
MinPasswordLen == 6
SecondsPerDay == 24 * 60 * 60

NoDate == -1
NoTime == -1
NoUser == -1

---------------------------------------------------------------------------
(* Enumerations: models.py UserTier, UserStatus, AnalysisType *)

UserTier == {"basic", "premium", "vip"}
UserStatus == {"inactive", "active", "blocked", "suspended"}
AnalysisType == {"quick", "detailed", "chart", "news", "forecast"}

---------------------------------------------------------------------------
(* Characters and strings *)

LowerLetters == {"a", "b", "c", "o", "x"}
UpperLetters == {"A", "B"}
Letters == LowerLetters \cup UpperLetters
DigitChars == {"1", "2", "3", "4"}

\* str.lower() on one character
ToLower(ch) == CASE ch = "A" -> "a" [] ch = "B" -> "b" [] OTHER -> ch

\* str.lower()
Lower(s) == [i \in DOMAIN s |-> ToLower(s[i])]

EmailInputs == { <<"a", "@", "x", ".", "c", "o">>,
                 <<"A", "@", "x", ".", "c", "o">>,
                 <<"b", "@", "x", ".", "c", "o">>,
                 <<"a", "@", "x">> }

PasswordInputs == { <<"a", "b", "c", "1", "2", "3">>,
                    <<"a", "b", "c", "1", "2", "4">>,
                    <<"a", "b", "1">>,
                    <<"a", "b", "c", "a", "b", "c">>,
                    <<"1", "2", "3", "1", "2", "3">> }

\* secrets.token_hex(16): fixed-length random hex strings
Salts == { <<"1", "a">>, <<"2", "b">> }

---------------------------------------------------------------------------
(* AuthManager: passwords and validation *)

\* hashlib.sha256(m).hexdigest(), as a collision-free digest of the message
Sha256(m) == <<"sha256", m>>

\* _hash_password: "salt:digest" with digest = sha256(password + salt)
HashPassword(password, salt) == <<salt, Sha256(password \o salt)>>

\* _verify_password: split on ":", recompute the digest with the stored salt
VerifyPassword(password, hashed) == Sha256(password \o hashed[1]) = hashed[2]

\* _validate_email: ^[a-zA-Z0-9._%+-]+@[a-zA-Z0-9.-]+\.[a-zA-Z]{2,}$
LocalChars == Letters \cup DigitChars \cup {".", "_", "%", "+", "-"}
DomainChars == Letters \cup DigitChars \cup {".", "-"}
ValidateEmail(email) ==
    \E at \in 2..Len(email), dot \in 3..Len(email) :
        /\ email[at] = "@"
        /\ \A i \in 1..(at - 1) : email[i] \in LocalChars
        /\ dot > at + 1
        /\ email[dot] = "."
        /\ \A i \in (at + 1)..(dot - 1) : email[i] \in DomainChars
        /\ Len(email) - dot >= 2
        /\ \A i \in (dot + 1)..Len(email) : email[i] \in Letters

\* _validate_password: "" when valid, else the reason
ValidatePassword(password) ==
    IF Len(password) < MinPasswordLen THEN "too_short"
    ELSE IF ~ \E i \in DOMAIN password : password[i] \in Letters THEN "no_letter"
    ELSE IF ~ \E i \in DOMAIN password : password[i] \in DigitChars THEN "no_digit"
    ELSE ""

---------------------------------------------------------------------------
(* models.py User *)

\* datetime.utcnow().strftime("%Y-%m-%d")
Today == clock \div SecondsPerDay

\* User.get_daily_limit
GetDailyLimit(user) ==
    CASE user.tier = "basic" -> BasicDailyLimit
      [] user.tier = "premium" -> PremiumDailyLimit
      [] user.tier = "vip" -> Unlimited
      [] OTHER -> BasicDailyLimit

\* The lazy reset at the head of get_remaining_analyses_today: the object
\* after the call (the method mutates self).
ResetIfNewDay(user) ==
    IF user.daily_analyses_date # Today
    THEN [user EXCEPT !.daily_analyses_count = 0, !.daily_analyses_date = Today]
    ELSE user

Max(a, b) == IF a >= b THEN a ELSE b

\* User.get_remaining_analyses_today: the value returned
GetRemainingAnalysesToday(user) ==
    LET u == ResetIfNewDay(user)
        limit == GetDailyLimit(u)
    IN IF limit = Unlimited THEN Unlimited
       ELSE Max(0, limit - u.daily_analyses_count)

\* User.can_analyze_today
CanAnalyzeToday(user) == GetRemainingAnalysesToday(user) # 0

\* User.is_active
IsActive(user) == user.status = "active"

\* User.increment_daily_analysis: [ok, user] with the object after the call
IncrementDailyAnalysis(user) ==
    IF ~ CanAnalyzeToday(user)
    THEN [ok |-> FALSE, user |-> ResetIfNewDay(user)]
    ELSE LET u == ResetIfNewDay(user)
         IN [ok |-> TRUE,
             user |-> [u EXCEPT !.daily_analyses_count = @ + 1,
                                !.total_analyses = @ + 1]]

\* User(...) as register_user constructs it
NewUser(id, email, password_hash) ==
    [user_id |-> id, email |-> email, password_hash |-> password_hash,
     tier |-> "basic", status |-> "active", total_analyses |-> 0,
     daily_analyses_count |-> 0, daily_analyses_date |-> NoDate,
     last_seen |-> NoTime]

\* The fields of the User dataclass that the model carries
UserFields == {"user_id", "email", "password_hash", "tier", "status",
               "total_analyses", "daily_analyses_count",
               "daily_analyses_date", "last_seen"}

NoDoc == NewUser(NoUser, <<>>, <<>>)

\* a from_dict that drops the store's "_id" before cls(**data)
FromDictWithoutId(data) ==
    IF data.tier \in UserTier /\ data.status \in UserStatus
    THEN [raised |-> FALSE,
          user |-> [k \in DOMAIN data \ {"_id"} |-> data[k]]]
    ELSE [raised |-> TRUE, user |-> NoDoc]

\* User.from_dict: the enum conversions, then cls(**data).  cls(**data)
\* raises TypeError on a key that is not a field of the dataclass.
FromDict(data) ==
    IF /\ DOMAIN data \subseteq UserFields
       /\ data.tier \in UserTier
       /\ data.status \in UserStatus
    THEN [raised |-> FALSE, user |-> data]
    ELSE [raised |-> TRUE, user |-> NoDoc]

---------------------------------------------------------------------------
(* The users collection (MongoDB through motor).  insert_one stores the    *)
(* document under a generated "_id"; find_one returns the stored document  *)
(* with every key, "_id" included; $set replaces the named fields only.    *)

ObjectId == "ObjectId"

\* insert_one(doc): the document as stored
Stored(doc) == ("_id" :> ObjectId) @@ doc

\* find_one({"email": e})
FindByEmail(e) == { id \in DOMAIN users : users[id].email = e }

\* find_one({"user_id": id}) returns a document
UserExists(id) == id \in DOMAIN users

\* update_one({"user_id": id}, {"$set": fields}) on one stored document
SetFields(stored, fields) ==
    [k \in DOMAIN stored \cup DOMAIN fields |->
        IF k \in DOMAIN fields THEN fields[k] ELSE stored[k]]

\* AuthManager.get_user_by_id: None when nothing is found and when
\* from_dict raises (the exception is caught and logged)
GetUserById(id) ==
    IF ~ UserExists(id) THEN [found |-> FALSE, user |-> NoDoc]
    ELSE LET parsed == FromDict(users[id])
         IN [found |-> ~ parsed.raised, user |-> parsed.user]

---------------------------------------------------------------------------
(* AuthManager.register_user, one coroutine per call.  The coroutine is    *)
(* suspended at "await find_one" and at "await insert_one"; the code       *)
(* between two awaits runs without interleaving.                           *)

RegProcs == 1..NumRegProcs

RegIdle == [pc |-> "idle", email |-> <<>>, password |-> <<>>,
            user_id |-> NoUser, success |-> FALSE, error |-> "",
            remaining |-> 0, hash |-> << >>]

\* a refused call: its answer (the e-mail and the password of the call are
\* kept as history)
RegFail(r, why) == [r EXCEPT !.pc = "done", !.error = why]

\* lines 88-101: validate the e-mail, then find_one({"email": request.email})
RegStart(p, email, password) ==
    /\ reg[p].pc = "idle"
    /\ LET r == [reg[p] EXCEPT !.email = email, !.password = password]
       IN reg' = [reg EXCEPT ![p] =
                    IF ~ ValidateEmail(email) THEN RegFail(r, "bad_email")
                    ELSE IF FindByEmail(email) # {} THEN RegFail(r, "email_exists")
                    ELSE [r EXCEPT !.pc = "checked"]]
    /\ UNCHANGED <<webVars, clock, users, user_counter, loginResp, sess, adm,
                   auditVars, priceVars, memory_cache, req>>

\* a users collection whose only unique index is the one on user_id
UniqueUserIdOnly(doc) == doc.user_id \notin DOMAIN users

\* a store with the unique index on email alone: an insert under a stored
\* user_id is accepted
UniqueEmailOnly(doc) == FindByEmail(doc.email) = {}

\* The unique indexes created by initialize(): insert_one raises
\* DuplicateKeyError when the e-mail or the user_id is already stored.
UniqueIndexesAccept(doc) ==
    /\ doc.user_id \notin DOMAIN users
    /\ FindByEmail(doc.email) = {}

\* lines 103-129, up to the call of insert_one: validate the password, hash
\* it and build the User from the current user_counter and the lowercased
\* e-mail
RegBuild(p, salt) ==
    /\ reg[p].pc = "checked"
    /\ LET r == reg[p]
           why == ValidatePassword(r.password)
       IN reg' = [reg EXCEPT ![p] =
                    IF why # "" THEN RegFail(r, why)
                    ELSE [r EXCEPT !.pc = "built",
                                   !.user_id = user_counter,
                                   !.hash = HashPassword(r.password, salt)]]
    /\ UNCHANGED <<webVars, clock, users, user_counter, loginResp, sess, adm,
                   auditVars, priceVars, memory_cache, req>>

\* line 129: the store executes insert_one; a DuplicateKeyError reaches
\* the except clause of register_user
RegInsert(p) ==
    /\ reg[p].pc = "built"
    /\ LET r == reg[p]
           doc == NewUser(r.user_id, Lower(r.email), r.hash)
       IN IF ~ UniqueIndexesAccept(doc)
          THEN /\ reg' = [reg EXCEPT ![p] =
                            RegFail([r EXCEPT !.user_id = NoUser], "exception")]
               /\ users' = users
          ELSE /\ reg' = [reg EXCEPT ![p] = [r EXCEPT !.pc = "inserted"]]
               /\ users' = [id \in DOMAIN users \cup {doc.user_id} |->
                               IF id = doc.user_id THEN Stored(doc)
                               ELSE users[id]]
    /\ UNCHANGED <<webVars, clock, user_counter, loginResp, sess, adm,
                   auditVars, priceVars, memory_cache, req>>

\* lines 130-140: after insert_one returns, bump the counter and answer
RegFinish(p) ==
    /\ reg[p].pc = "inserted"
    /\ user_counter' = user_counter + 1
    /\ LET r == reg[p]
       IN reg' = [reg EXCEPT ![p] =
                    [r EXCEPT !.pc = "done", !.success = TRUE,
                              !.remaining = GetRemainingAnalysesToday(
                                  NewUser(r.user_id, Lower(r.email), <<>>))]]
    /\ UNCHANGED <<webVars, clock, users, loginResp, sess, adm,
                   auditVars, priceVars, memory_cache, req>>

---------------------------------------------------------------------------
(* AuthManager.login_user *)

\* password is history: the password the call was made with
NoLogin == [success |-> FALSE, user_id |-> NoUser, error |-> "none",
            password |-> << >>]

\* lines 166-176 on the parsed user: "" when the login is accepted
LoginRefusal(user, password) ==
    IF ~ VerifyPassword(password, user.password_hash) THEN "bad_password"
    ELSE IF ~ IsActive(user) THEN "inactive"
    ELSE ""

\* login_user: find_one by the lowercased e-mail, from_dict, the checks,
\* then $set last_seen; any exception becomes a failure response
Login(email, password) ==
    /\ LET found == FindByEmail(Lower(email))
       IN IF found = {}
          THEN /\ loginResp' = [NoLogin EXCEPT !.error = "unknown_email",
                                                !.password = password]
               /\ users' = users
          ELSE LET id == CHOOSE i \in found : TRUE
                   parsed == FromDict(users[id])
                   why == IF parsed.raised THEN "exception"
                          ELSE LoginRefusal(parsed.user, password)
               IN IF why # ""
                  THEN /\ loginResp' = [NoLogin EXCEPT !.error = why,
                                                        !.password = password]
                       /\ users' = users
                  ELSE /\ loginResp' = [success |-> TRUE, user_id |-> id,
                                        error |-> "", password |-> password]
                       /\ users' = [users EXCEPT ![id] =
                                      SetFields(@, [last_seen |-> clock])]
    /\ UNCHANGED <<webVars, clock, user_counter, reg, sess, adm,
                   auditVars, priceVars, memory_cache, req>>

---------------------------------------------------------------------------
(* AdminManager.log_analysis and _update_daily_summary *)

RECURSIVE Gcd(_, _)
Gcd(a, b) == IF b = 0 THEN a ELSE Gcd(b, a % b)

\* a non-negative rational in lowest terms (avg_response_time)
Rat(n, d) == LET g == Gcd(n, d) IN [num |-> n \div g, den |-> d \div g]

\* UserDailySummary(user_id=..., date=today)
NewSummary == [total_requests |-> 0, successful_analyses |-> 0,
               failed_analyses |-> 0, avg_response_time |-> Rat(0, 1),
               by_type |-> [t \in AnalysisType |-> 0]]

\* lines 466-491: the counters and the running average
BumpSummary(summary, analysis_type, success, processing_time) ==
    LET n == summary.total_requests + 1
        avg == summary.avg_response_time
    IN [total_requests |-> n,
        successful_analyses |-> summary.successful_analyses
                                  + (IF success THEN 1 ELSE 0),
        failed_analyses |-> summary.failed_analyses
                              + (IF success THEN 0 ELSE 1),
        by_type |-> [summary.by_type EXCEPT ![analysis_type] = @ + 1],
        avg_response_time |->
            IF n > 1
            THEN Rat(avg.num * (n - 1) + processing_time * avg.den, avg.den * n)
            ELSE Rat(processing_time, 1)]

\* The fields of the UserDailySummary dataclass that the model carries
SummaryFields == {"total_requests", "successful_analyses", "failed_analyses",
                  "avg_response_time", "by_type"}

\* _update_daily_summary: find_one, UserDailySummary(**summary_data) or a
\* new summary, the counters, replace_one(upsert=True).  The constructor
\* raises TypeError on a key that is not a field; the exception is caught
\* and logged and the stored summary stays as it was.
UpdateDailySummary(summaries, user_id, analysis_type, success, processing_time) ==
    LET key == <<user_id, Today>>
        found == key \in DOMAIN summaries
    IN IF found /\ ~ (DOMAIN summaries[key] \subseteq SummaryFields)
       THEN summaries
       ELSE LET old == IF found THEN summaries[key] ELSE NewSummary
                new == BumpSummary(old, analysis_type, success, processing_time)
            IN [k \in DOMAIN summaries \cup {key} |->
                   IF k = key THEN Stored(new) ELSE summaries[k]]

\* a log_analysis that records every request as a success
LogEntryAlwaysSuccess(user_id, analysis_type, success, processing_time, user_tier) ==
    [user_id |-> user_id, analysis_type |-> analysis_type, success |-> TRUE,
     processing_time |-> processing_time, user_tier |-> user_tier]

\* AnalysisLog(...) as log_analysis builds it
LogEntry(user_id, analysis_type, success, processing_time, user_tier) ==
    [user_id |-> user_id, analysis_type |-> analysis_type, success |-> success,
     processing_time |-> processing_time, user_tier |-> user_tier]

\* log_analysis: insert the log, then update the daily summary
LogAnalysis(user_id, analysis_type, success, processing_time, user_tier) ==
    /\ analysis_logs' = Append(analysis_logs,
            LogEntry(user_id, analysis_type, success, processing_time, user_tier))
    /\ daily_summaries' = UpdateDailySummary(daily_summaries, user_id,
            analysis_type, success, processing_time)

SystemUser == 0

---------------------------------------------------------------------------
(* Admin operations: AdminManager.toggle_user_status, update_user_tier and  *)
(* AuthManager.update_user_subscription.  Each reads the user document,     *)
(* changes its copy and writes the whole copy back ($set user.to_dict()).   *)
(* An exception anywhere in an operation is caught and answered with        *)
(* success False.                                                           *)

\* was is history: the stored status when the operation read the user
AdmIdle == [pc |-> "idle", op |-> "none", user_id |-> NoUser,
            new_tier |-> "none", doc |-> NoDoc, success |-> FALSE,
            error |-> "", was |-> "none"]

TierInputs == UserTier \cup {"gold"}

AdmFail(a, why) == [a EXCEPT !.pc = "done", !.success = FALSE, !.error = why]

\* toggle_user_status lines 223-234 on the fetched copy
ToggledStatus(user) ==
    CASE user.status = "active" -> "inactive"
      [] user.status = "inactive" -> "active"
      [] OTHER -> user.status

\* toggle_user_status lines 216-234
ToggleRead(user_id) ==
    /\ adm.pc \in {"idle", "done"}
    /\ LET a == [AdmIdle EXCEPT !.op = "toggle", !.user_id = user_id,
                                !.was = IF UserExists(user_id)
                                        THEN users[user_id].status
                                        ELSE "none"]
           parsed == FromDict(users[user_id])
       IN adm' = IF ~ UserExists(user_id) THEN AdmFail(a, "User not found")
                 ELSE IF parsed.raised THEN AdmFail(a, "exception")
                 ELSE IF parsed.user.status \notin {"active", "inactive"}
                      THEN AdmFail(a, "Cannot toggle")
                 ELSE [a EXCEPT !.pc = "loaded",
                                !.doc = [parsed.user EXCEPT
                                           !.status = ToggledStatus(parsed.user)]]
    /\ UNCHANGED <<webVars, clock, authVars, sess, auditVars, priceVars, memory_cache, req>>

\* update_user_tier lines 268-280: the tier is the only field changed
TierChanged(user, new_tier) == [user EXCEPT !.tier = new_tier]

\* update_user_tier lines 266-277
TierRead(user_id, new_tier) ==
    /\ adm.pc \in {"idle", "done"}
    /\ LET a == [AdmIdle EXCEPT !.op = "tier", !.user_id = user_id,
                                !.new_tier = new_tier]
           parsed == FromDict(users[user_id])
       IN adm' = IF new_tier \notin UserTier THEN AdmFail(a, "Invalid tier")
                 ELSE IF ~ UserExists(user_id) THEN AdmFail(a, "User not found")
                 ELSE IF parsed.raised THEN AdmFail(a, "exception")
                 ELSE [a EXCEPT !.pc = "loaded",
                                !.doc = TierChanged(parsed.user, new_tier)]
    /\ UNCHANGED <<webVars, clock, authVars, sess, auditVars, priceVars, memory_cache, req>>

\* update_user_subscription lines 294-303
SubscriptionChanged(user, new_tier) ==
    [user EXCEPT !.tier = new_tier, !.daily_analyses_count = 0,
                 !.daily_analyses_date = Today]

\* update_user_subscription lines 284-303
SubscriptionRead(user_id, new_tier) ==
    /\ adm.pc \in {"idle", "done"}
    /\ LET a == [AdmIdle EXCEPT !.op = "subscription", !.user_id = user_id,
                                !.new_tier = new_tier]
           got == GetUserById(user_id)
       IN adm' = IF new_tier \notin UserTier THEN AdmFail(a, "Invalid tier")
                 ELSE IF ~ got.found THEN AdmFail(a, "User not found")
                 ELSE [a EXCEPT !.pc = "loaded",
                                !.doc = SubscriptionChanged(got.user, new_tier)]
    /\ UNCHANGED <<webVars, clock, authVars, sess, auditVars, priceVars, memory_cache, req>>

\* update_one({"user_id": id}, {"$set": user.to_dict()})
StoreUser(doc) ==
    IF doc.user_id \in DOMAIN users
    THEN [users EXCEPT ![doc.user_id] = SetFields(@, doc)]
    ELSE users

\* The write of the admin's copy; update_user_subscription answers here,
\* the AdminManager operations go on to log_analysis.
AdminWrite ==
    /\ adm.pc = "loaded"
    /\ users' = StoreUser(adm.doc)
    /\ adm' = IF adm.op = "subscription"
              THEN [adm EXCEPT !.pc = "done", !.success = TRUE]
              ELSE [adm EXCEPT !.pc = "written"]
    /\ UNCHANGED <<webVars, clock, user_counter, reg, loginResp, sess, auditVars,
                   priceVars, memory_cache, req>>

\* log_analysis(user_id=0, QUICK, success=True, processing_time=0, ...)
AdminLog ==
    /\ adm.pc = "written"
    /\ LogAnalysis(SystemUser, "quick", TRUE, 0, "basic")
    /\ adm' = [adm EXCEPT !.pc = "done", !.success = TRUE]
    /\ UNCHANGED <<webVars, clock, authVars, sess, priceVars, memory_cache, req>>

---------------------------------------------------------------------------
(* AuthManager.can_user_analyze and record_analysis *)

\* can_user_analyze: (allowed, reason, remaining)
CanUserAnalyze(user_id) ==
    LET got == GetUserById(user_id)
    IN IF ~ got.found
       THEN [allowed |-> FALSE, reason |-> "not_found", remaining |-> 0]
       ELSE IF ~ IsActive(got.user)
       THEN [allowed |-> FALSE, reason |-> "inactive", remaining |-> 0]
       ELSE IF ~ CanAnalyzeToday(got.user)
       THEN [allowed |-> FALSE, reason |-> "exhausted", remaining |-> 0]
       ELSE [allowed |-> TRUE, reason |-> "",
             remaining |-> GetRemainingAnalysesToday(got.user)]

(* A quota-gated analysis run: can_user_analyze, the LLM call, then         *)
(* record_analysis, which reads the user (get_user_by_id), increments its  *)
(* copy and writes the whole copy back (update_user).  Every await is a    *)
(* point where other coroutines run.                                       *)

SessProcs == 1..NumSessions

\* before is history: the stored document when record_analysis was called
SessIdle == [pc |-> "idle", user_id |-> NoUser, day |-> NoDate,
             remaining |-> 0, doc |-> NoDoc, recorded |-> FALSE,
             before |-> NoDoc]

UserIdInputs == FirstUserId..(FirstUserId + NumRegProcs)

\* positions at which a run has ended: denied, LLM failure, or after
\* record_analysis
SessEnded == {"denied", "llm_failed", "done"}

SessCheck(s, user_id) ==
    /\ sess[s].pc = "idle"
    /\ LET c == CanUserAnalyze(user_id)
       IN sess' = [sess EXCEPT ![s] =
                     [@ EXCEPT !.pc = IF c.allowed THEN "llm" ELSE "denied",
                               !.user_id = user_id, !.day = Today,
                               !.remaining = c.remaining]]
    /\ UNCHANGED <<webVars, clock, authVars, adm, auditVars, priceVars, memory_cache, req>>

\* the LLM call: answers (ok) or fails / answers empty
SessLLM(s, ok) ==
    /\ sess[s].pc = "llm"
    /\ sess' = [sess EXCEPT ![s].pc = IF ok THEN "record" ELSE "llm_failed"]
    /\ UNCHANGED <<webVars, clock, authVars, adm, auditVars, priceVars, memory_cache, req>>

\* record_analysis lines 264-268: get_user_by_id, increment_daily_analysis
SessRecordRead(s) ==
    /\ sess[s].pc = "record"
    /\ LET got == GetUserById(sess[s].user_id)
       IN IF ~ got.found
          THEN sess' = [sess EXCEPT ![s].pc = "done"]
          ELSE LET inc == IncrementDailyAnalysis(got.user)
               IN sess' = [sess EXCEPT ![s] =
                             IF inc.ok THEN [@ EXCEPT !.pc = "write", !.doc = inc.user]
                             ELSE [@ EXCEPT !.pc = "done"]]
    /\ UNCHANGED <<webVars, clock, authVars, adm, auditVars, priceVars, memory_cache, req>>

\* record_analysis line 269: update_user(user), then return True
SessRecordWrite(s) ==
    /\ sess[s].pc = "write"
    /\ users' = StoreUser(sess[s].doc)
    /\ sess' = [sess EXCEPT ![s] = [@ EXCEPT !.pc = "done", !.recorded = TRUE]]
    /\ UNCHANGED <<webVars, clock, user_counter, reg, loginResp, adm, auditVars,
                   priceVars, memory_cache, req>>

\* record_analysis called for a user (lines 264-268): get_user_by_id, then
\* increment_daily_analysis on the copy; the call returns False at "done"
\* and goes on to update_user at "write"
RecordAnalysis(s, user_id) ==
    /\ sess[s].pc = "idle"
    /\ LET got == GetUserById(user_id)
           r == [sess[s] EXCEPT !.user_id = user_id, !.day = Today,
                                !.before = IF UserExists(user_id)
                                           THEN users[user_id] ELSE NoDoc]
       IN IF ~ got.found
          THEN sess' = [sess EXCEPT ![s] = [r EXCEPT !.pc = "done"]]
          ELSE LET inc == IncrementDailyAnalysis(got.user)
               IN sess' = [sess EXCEPT ![s] =
                             IF inc.ok THEN [r EXCEPT !.pc = "write", !.doc = inc.user]
                             ELSE [r EXCEPT !.pc = "done"]]
    /\ UNCHANGED <<webVars, clock, authVars, adm, auditVars, priceVars, memory_cache, req>>

---------------------------------------------------------------------------
(* Numbers in provider replies.  Python floats are exact rationals          *)
(* num/den with den > 0; float("nan") is 0/0.                               *)

Num(n, d) == [num |-> n, den |-> d]
NaN == Num(0, 0)
IsNaN(x) == x.den = 0

\* bool(x): zero is falsy, nan is truthy
Truthy(x) == IsNaN(x) \/ x.num # 0

\* a <= b; every comparison with nan is False
Leq(a, b) == ~ IsNaN(a) /\ ~ IsNaN(b) /\ a.num * b.den <= b.num * a.den

\* x > 0
Positive(x) == ~ IsNaN(x) /\ x.num > 0

\* 1.0 / x for x > 0 or nan
Reciprocal(x) == IF IsNaN(x) THEN NaN ELSE Num(x.den, x.num)

---------------------------------------------------------------------------
(* InMemoryCache (cache.py): key -> [value, expires].  The lock is never    *)
(* held across an await, so get / set / delete are atomic.                  *)

PriceCacheTtl == 900
AnalysisCacheTtl == 1800

\* InMemoryCache.set
CacheSet(cache, key, value, expire_seconds) ==
    [k \in DOMAIN cache \cup {key} |->
        IF k = key THEN [value |-> value, expires |-> clock + expire_seconds]
        ELSE cache[k]]

\* a get that still serves an entry at the instant it expires
CacheLiveInclusive(cache, key) ==
    key \in DOMAIN cache /\ clock <= cache[key].expires

\* InMemoryCache.get: the entry is served while utcnow() < expires
CacheLive(cache, key) == key \in DOMAIN cache /\ clock < cache[key].expires

\* InMemoryCache.get: the map after the call (an expired entry is deleted)
CacheAfterGet(cache, key) ==
    IF key \in DOMAIN cache /\ ~ CacheLive(cache, key)
    THEN [k \in DOMAIN cache \ {key} |-> cache[k]]
    ELSE cache

\* CacheKeys.GOLD_PRICE
GoldPriceKey == <<"gold_price", "latest">>

---------------------------------------------------------------------------
(* GoldPriceManager (gold_price.py) *)

MinGoldPrice == 1000
MaxGoldPrice == 5000
CacheDuration == 900

\* self.apis: name -> configuration
Apis == [api_ninjas    |-> [priority |-> 1, active |-> TRUE],
         metals_api    |-> [priority |-> 2, active |-> TRUE],
         metalpriceapi |-> [priority |-> 3, active |-> TRUE],
         yahoo_finance |-> [priority |-> 4, active |-> TRUE]]

\* sorted(..., key=priority) with the highest priority number first
RECURSIVE SortByPriorityDescending(_)
SortByPriorityDescending(S) ==
    IF S = {} THEN << >>
    ELSE LET m == CHOOSE a \in S : \A b \in S : Apis[a].priority >= Apis[b].priority
         IN <<m>> \o SortByPriorityDescending(S \ {m})

\* sorted(self.apis.items(), key=lambda x: x[1]['priority'])
RECURSIVE SortByPriority(_)
SortByPriority(S) ==
    IF S = {} THEN << >>
    ELSE LET m == CHOOSE a \in S : \A b \in S : Apis[a].priority <= Apis[b].priority
         IN <<m>> \o SortByPriority(S \ {m})

\* self.active_apis
ActiveApis == SortByPriority({a \in DOMAIN Apis : Apis[a].active})

\* The source string each parser writes
SourceOf(api) ==
    CASE api = "api_ninjas" -> "API Ninjas"
      [] api = "metals_api" -> "Metals-API"
      [] api = "metalpriceapi" -> "metalpriceapi.com"
      [] api = "yahoo_finance" -> "yahoo_finance"

\* The source written by both fallbacks (the Arabic notice "could not fetch
\* the price now, the last saved price will be used")
StaleMarker == "price unavailable, using last saved price"

\* GoldPrice: the fields the manager decides on.  The parsers fill
\* price_change, price_change_pct, ask and bid with numbers in every quote
\* they return, so the None checks of _validate_price_data never fire.
Quote(price_usd, source, timestamp) ==
    [price_usd |-> price_usd, source |-> source, timestamp |-> timestamp]

\* gold_cache["price"] = None
NoQuote == Quote(Num(0, 1), "none", NoTime)

\* HTTP replies of a provider: an error status, a 200 whose body is not
\* JSON, or a 200 with a JSON body.  In the body, ok is the "success" flag
\* of the two rate APIs and "result is not empty" for Yahoo; the value is
\* "price" (API Ninjas), rates["XAU"] (rate APIs), regularMarketPrice (Yahoo),
\* present or absent.
BodyNumbers == { Num(0, 1), Num(999, 1), Num(1000, 1), Num(5000, 1),
                 Num(5001, 1), Num(1, 999), Num(1, 1000), Num(1, 5000),
                 Num(1, 5001), Num(-1, 1000), NaN }

ErrorStatuses == {401, 429, 403, 404, 500}

Responses ==
    [status : ErrorStatuses, json : {FALSE}, ok : {FALSE}, has : {FALSE},
     value : {NaN}]
    \cup [status : {200}, json : {FALSE}, ok : {FALSE}, has : {FALSE},
          value : {NaN}]
    \cup [status : {200}, json : {TRUE}, ok : BOOLEAN, has : {FALSE},
          value : {NaN}]
    \cup [status : {200}, json : {TRUE}, ok : BOOLEAN, has : {TRUE},
          value : BodyNumbers]

\* raise GoldAPIError
Raised == [raised |-> TRUE, quote |-> NoQuote]
Parsed(price_usd, api) ==
    [raised |-> FALSE, quote |-> Quote(price_usd, SourceOf(api), clock)]

\* _parse_api_ninjas_response
ParseApiNinjas(body) ==
    IF ~ body.has \/ ~ Truthy(body.value) \/ Leq(body.value, Num(0, 1))
    THEN Raised
    ELSE Parsed(body.value, "api_ninjas")

\* _parse_metals_api_response: the rate is 1/price
ParseMetalsApi(body) ==
    IF ~ body.ok \/ ~ body.has THEN Raised
    ELSE IF Leq(body.value, Num(0, 1)) THEN Raised
    ELSE LET price_usd == Reciprocal(body.value)
         IN IF ~ Truthy(price_usd) \/ Leq(price_usd, Num(0, 1)) THEN Raised
            ELSE Parsed(price_usd, "metals_api")

\* _parse_metalpriceapi_response: 1.0 / xau_rate if xau_rate > 0 else 0
ParseMetalpriceapi(body) ==
    IF ~ body.ok \/ ~ body.has THEN Raised
    ELSE LET price_usd == IF Positive(body.value) THEN Reciprocal(body.value)
                          ELSE Num(0, 1)
         IN IF ~ Truthy(price_usd) \/ Leq(price_usd, Num(0, 1)) THEN Raised
            ELSE Parsed(price_usd, "metalpriceapi")

\* _parse_yahoo_finance_response: regularMarketPrice defaults to 0
ParseYahooFinance(body) ==
    IF ~ body.ok THEN Raised
    ELSE LET current_price == IF body.has THEN body.value ELSE Num(0, 1)
         IN IF ~ Truthy(current_price) \/ Leq(current_price, Num(0, 1))
            THEN Raised
            ELSE Parsed(current_price, "yahoo_finance")

\* _fetch_from_api: every failure leaves as GoldAPIError
FetchFromApi(api, resp) ==
    IF resp.status # 200 THEN Raised
    ELSE IF ~ resp.json THEN Raised
    ELSE CASE api = "api_ninjas" -> ParseApiNinjas(resp)
           [] api = "metals_api" -> ParseMetalsApi(resp)
           [] api = "metalpriceapi" -> ParseMetalpriceapi(resp)
           [] api = "yahoo_finance" -> ParseYahooFinance(resp)

\* _validate_price_data without the range check
ValidatePositiveOnly(price) ==
    ~ ( IsNaN(price.price_usd) \/ Leq(price.price_usd, Num(0, 1)) )

\* _validate_price_data
ValidatePriceData(price) ==
    IF IsNaN(price.price_usd) \/ Leq(price.price_usd, Num(0, 1)) THEN FALSE
    ELSE IF ~ ( Leq(Num(MinGoldPrice, 1), price.price_usd)
                /\ Leq(price.price_usd, Num(MaxGoldPrice, 1)) ) THEN FALSE
    ELSE TRUE

\* the demo quote of the last fallback: 3320.45
DemoPrice == Quote(Num(66409, 20), StaleMarker, clock)

\* json.dumps(asdict(price), default=str): numbers stay numbers, the
\* datetime becomes its str()
DumpsGoldPrice(price) ==
    [price_usd |-> price.price_usd, source |-> price.source,
     timestamp |-> <<"str", price.timestamp>>]

(* get_current_price, one coroutine per caller.  The coroutine is suspended *)
(* at each provider request; a cache hit returns without suspending.        *)
(* result is the quote as it was when returned.  last_event records the     *)
(* latest of: a call that went on to the providers ("miss"), or the way a   *)
(* call returned ("hit", "fresh", "stale", "demo").                         *)

NumCallers == 2
Callers == 1..NumCallers

PIdle == [pc |-> "idle", now |-> NoTime, idx |-> 0, contacted |-> << >>,
          outcome |-> "none", result |-> NoQuote]

\* lines 159-161 with the boundary age served from the cache as well
CacheUsableInclusive(use_cache, now) ==
    /\ use_cache
    /\ gold_cache.price # NoQuote
    /\ now - gold_cache.timestamp <= CacheDuration

\* lines 159-161: the cached quote is served while its age is below the
\* cache duration
CacheUsable(use_cache, now) ==
    /\ use_cache
    /\ gold_cache.price # NoQuote
    /\ now - gold_cache.timestamp < CacheDuration

\* lines 192-197 with the timestamp refreshed as well
StaleCacheRefreshed(cache, now) ==
    [price |-> [cache.price EXCEPT !.source = StaleMarker], timestamp |-> now]

\* lines 192-197: the cached object gets the notice as its source; the
\* timestamp of the cache is left as it is
StaleCache(cache, now) ==
    [cache EXCEPT !.price = [cache.price EXCEPT !.source = StaleMarker]]

\* lines 156-165: the call up to its first await (or its return, on a hit)
GetCurrentPriceStart(c, use_cache) ==
    LET now == clock
        hit == CacheUsable(use_cache, now)
    IN /\ pcall' = [pcall EXCEPT ![c] =
                      IF hit
                      THEN [PIdle EXCEPT !.pc = "done", !.now = now,
                                         !.outcome = "hit",
                                         !.result = gold_cache.price]
                      ELSE [PIdle EXCEPT !.pc = "fetch", !.now = now,
                                         !.idx = 1]]
       /\ last_event' = IF hit THEN "hit" ELSE "miss"
       /\ UNCHANGED gold_cache

\* GET /gold-price: get_current_price(use_cache) called on its own
PStart(c, use_cache) ==
    /\ pcall[c].pc \in {"idle", "done"}
    /\ GetCurrentPriceStart(c, use_cache)
    /\ UNCHANGED <<webVars, clock, authVars, sess, adm, auditVars, memory_cache, req>>

\* lines 168-217: the reply of the provider being asked arrives
PFetch(c, resp) ==
    /\ pcall[c].pc = "fetch"
    /\ LET call == pcall[c]
           api == ActiveApis[call.idx]
           got == FetchFromApi(api, resp)
           valid == ~ got.raised /\ ValidatePriceData(got.quote)
           asked == Append(call.contacted, [api |-> api, valid |-> valid])
       IN IF valid
          THEN /\ gold_cache' = [price |-> got.quote, timestamp |-> call.now]
               /\ memory_cache' = CacheSet(memory_cache, GoldPriceKey,
                                           DumpsGoldPrice(got.quote), PriceCacheTtl)
               /\ pcall' = [pcall EXCEPT ![c] =
                              [call EXCEPT !.pc = "done", !.contacted = asked,
                                           !.outcome = "fresh",
                                           !.result = got.quote]]
               /\ last_event' = "fresh"
          ELSE IF call.idx < Len(ActiveApis)
          THEN /\ pcall' = [pcall EXCEPT ![c] =
                              [call EXCEPT !.idx = call.idx + 1,
                                           !.contacted = asked]]
               /\ UNCHANGED <<gold_cache, memory_cache, last_event>>
          ELSE IF gold_cache.price # NoQuote
          THEN LET stale == StaleCache(gold_cache, call.now)
               IN /\ gold_cache' = stale
                  /\ pcall' = [pcall EXCEPT ![c] =
                                 [call EXCEPT !.pc = "done", !.contacted = asked,
                                              !.outcome = "stale",
                                              !.result = stale.price]]
                  /\ last_event' = "stale"
                  /\ UNCHANGED memory_cache
          ELSE /\ gold_cache' = [price |-> DemoPrice, timestamp |-> call.now]
               /\ pcall' = [pcall EXCEPT ![c] =
                              [call EXCEPT !.pc = "done", !.contacted = asked,
                                           !.outcome = "demo",
                                           !.result = DemoPrice]]
               /\ last_event' = "demo"
               /\ UNCHANGED memory_cache
    /\ UNCHANGED <<webVars, clock, authVars, sess, adm, auditVars, req>>

---------------------------------------------------------------------------
(* The analysis cache: AIAnalysisManager.generate_analysis with            *)
(* CacheManager.cache_analysis / get_cached_analysis                       *)

\* the user_id that analyze_gold passes for every request
WebUser == 1

\* str() of an AnalysisType member, which json.dumps(..., default=str)
\* writes for the analysis_type field
EnumStr(t) ==
    CASE t = "quick" -> "AnalysisType.QUICK"
      [] t = "detailed" -> "AnalysisType.DETAILED"
      [] t = "chart" -> "AnalysisType.CHART"
      [] t = "news" -> "AnalysisType.NEWS"
      [] t = "forecast" -> "AnalysisType.FORECAST"

\* md5(f"{type}:{context}")[:16]; the context is built from the quote
ContentHash(analysis_type, quote) == <<"md5", analysis_type, quote>>

\* CacheKeys.analysis_key
AnalysisKey(user_id, analysis_type, content_hash) ==
    <<"analysis", user_id, analysis_type, content_hash>>

\* cache_analysis: json.dumps(asdict(analysis), default=str)
DumpsAnalysis(user_id, analysis_type, quote) ==
    [user_id |-> user_id, analysis_type |-> EnumStr(analysis_type),
     gold_price |-> quote.price_usd, created_at |-> clock]

\* Analysis.from_dict: AnalysisType(value) raises ValueError unless the
\* value is one of the members' values
AnalysisFromDict(data) == data.analysis_type \in AnalysisType

\* get_cached_analysis: an Analysis when the entry is live and parses,
\* None otherwise (an exception is caught and logged)
GetCachedAnalysis(cache, user_id, analysis_type, content_hash) ==
    LET key == AnalysisKey(user_id, analysis_type, content_hash)
    IN CacheLive(cache, key) /\ AnalysisFromDict(cache[key].value)

---------------------------------------------------------------------------
(* POST /analyze (server.py analyze_gold), one coroutine per request.  The  *)
(* request body may carry a user_id (the clients in auth_test.py send it);  *)
(* AnalysisRequest has no such field, so the handler never sees it.  The    *)
(* fields user_id, known and permitted record, for the request, the user   *)
(* named in the body, whether that user was stored and what                *)
(* can_user_analyze answered for that user when the request arrived;       *)
(* logged records the success flag of the AnalysisLog the request wrote;   *)
(* repeat records whether, when the request arrived, a request with the    *)
(* same body had been answered with an analysis less than the analysis     *)
(* cache's TTL before.                                                     *)

ReqIdle == [pc |-> "idle", user_id |-> NoUser, analysis_type |-> "none",
            start |-> NoTime, known |-> FALSE, permitted |-> FALSE,
            quote |-> NoQuote, llm_called |-> FALSE, cached |-> FALSE,
            analysis |-> FALSE, logged |-> "none", success |-> FALSE,
            repeat |-> FALSE]

TypeInputs == {"quick", "chart", "weekly"}

LlmReplies == {"text", "empty", "raise"}

\* generate_analysis lines 56-69, once the quote is known: the record of
\* the request after the cache lookup
AfterPrice(r, quote) ==
    IF GetCachedAnalysis(memory_cache, WebUser, r.analysis_type,
                         ContentHash(r.analysis_type, quote))
    THEN [r EXCEPT !.pc = "log", !.quote = quote, !.cached = TRUE,
                   !.analysis = TRUE]
    ELSE [r EXCEPT !.pc = "llm", !.quote = quote]

\* the in-memory cache after that lookup
LookupCache(r, quote) ==
    CacheAfterGet(memory_cache,
                  AnalysisKey(WebUser, r.analysis_type,
                              ContentHash(r.analysis_type, quote)))

\* history: a request with this body was answered with an analysis less
\* than the analysis cache's TTL ago
AnsweredBefore(user_id, analysis_type) ==
    \E o \in Callers :
        /\ req[o].pc = "done" /\ req[o].success
        /\ req[o].user_id = user_id
        /\ req[o].analysis_type = analysis_type
        /\ clock - req[o].start < AnalysisCacheTtl

\* lines 511-526: validate the type, then get_current_price(use_cache=True);
\* on a price cache hit the handler runs on into generate_analysis
AnalyzeStart(q, user_id, analysis_type) ==
    /\ req[q].pc = "idle"
    /\ pcall[q].pc \in {"idle", "done"}
    /\ LET r == [ReqIdle EXCEPT !.user_id = user_id,
                                !.analysis_type = analysis_type,
                                !.start = clock,
                                !.known = UserExists(user_id),
                                !.repeat = AnsweredBefore(user_id, analysis_type),
                                !.permitted = CanUserAnalyze(user_id).allowed]
       IN IF analysis_type \notin AnalysisType
          THEN /\ req' = [req EXCEPT ![q] = [r EXCEPT !.pc = "done"]]
               /\ UNCHANGED <<priceVars, memory_cache>>
          ELSE /\ GetCurrentPriceStart(q, TRUE)
               /\ IF CacheUsable(TRUE, clock)
                  THEN /\ req' = [req EXCEPT ![q] = AfterPrice(r, gold_cache.price)]
                       /\ memory_cache' = LookupCache(r, gold_cache.price)
                  ELSE /\ req' = [req EXCEPT ![q] = [r EXCEPT !.pc = "price"]]
                       /\ UNCHANGED memory_cache
    /\ UNCHANGED <<webVars, clock, authVars, sess, adm, auditVars>>

\* get_current_price has returned after asking the providers
AnalyzeGotPrice(q) ==
    /\ req[q].pc = "price"
    /\ pcall[q].pc = "done"
    /\ req' = [req EXCEPT ![q] = AfterPrice(req[q], pcall[q].result)]
    /\ memory_cache' = LookupCache(req[q], pcall[q].result)
    /\ UNCHANGED <<webVars, clock, authVars, sess, adm, auditVars, priceVars>>

\* a generate_analysis without the test for an empty response
GeneratedUnlessRaised(reply) == reply # "raise"

\* generate_analysis lines 88-93: send_message returned (did not raise) a
\* response that is not empty
Generated(reply) == reply = "text"

\* generate_analysis lines 88-121: the reply of chat.send_message; a text
\* becomes an Analysis and is cached, an empty reply or an exception
\* gives None
AnalyzeLLM(q, reply) ==
    /\ req[q].pc = "llm"
    /\ LET r == req[q]
       IN IF Generated(reply)
          THEN /\ req' = [req EXCEPT ![q] = [r EXCEPT !.pc = "log",
                                                      !.llm_called = TRUE,
                                                      !.analysis = TRUE]]
               /\ memory_cache' = CacheSet(memory_cache,
                      AnalysisKey(WebUser, r.analysis_type,
                                  ContentHash(r.analysis_type, r.quote)),
                      DumpsAnalysis(WebUser, r.analysis_type, r.quote),
                      AnalysisCacheTtl)
          ELSE /\ req' = [req EXCEPT ![q] = [r EXCEPT !.pc = "log",
                                                      !.llm_called = TRUE]]
               /\ UNCHANGED memory_cache
    /\ UNCHANGED <<webVars, clock, authVars, sess, adm, auditVars, priceVars>>

\* lines 537-579: log_analysis(user_id=1, ..., user_tier=BASIC), then the
\* response
AnalyzeLog(q) ==
    /\ req[q].pc = "log"
    /\ LogAnalysis(WebUser, req[q].analysis_type, req[q].analysis,
                   clock - req[q].start, "basic")
    /\ req' = [req EXCEPT ![q] =
                 [@ EXCEPT !.pc = "done",
                           !.logged = IF req[q].analysis THEN "success"
                                      ELSE "failure",
                           !.success = req[q].analysis]]
    /\ UNCHANGED <<webVars, clock, authVars, sess, adm, priceVars, memory_cache>>

---------------------------------------------------------------------------
(* InMemoryCache used directly: set, get, delete, and the janitor task     *)
(* CacheManager.initialize starts when Redis is not in use.  Every         *)
(* operation runs under the cache's lock, so each is one step.             *)

CacheKeyInputs == { <<"key", "a">>, <<"key", "b">> }
CacheValueInputs == {"v1", "v2"}

\* the janitor sleeps this long between sweeps
SweepInterval == 300

TtlInputs == {SweepInterval, 2 * SweepInterval}

\* InMemoryCache.delete
CacheDelete(cache, key) == [k \in DOMAIN cache \ {key} |-> cache[k]]

\* InMemoryCache.cleanup_expired: removes the entries with now >= expires
CleanupExpired(cache) ==
    [k \in { x \in DOMAIN cache : ~ (clock >= cache[x].expires) } |-> cache[k]]

NoOp == [kind |-> "none", value |-> "None", at |-> NoTime, ttl |-> 0]

NoGet == [key |-> << >>, value |-> "None", at |-> NoTime]

\* the cache's history and the janitor when initialize() has returned:
\* the task is in its first sleep
CacheStart ==
    /\ cache_log = [last |-> [k \in CacheKeyInputs |-> NoOp], got |-> NoGet]
    /\ janitor = [task |-> "sleeping", wake |-> SweepInterval,
                  sweeps |-> 0, closed |-> FALSE]

MSet(key, value, ttl) ==
    /\ memory_cache' = CacheSet(memory_cache, key, value, ttl)
    /\ cache_log' = [cache_log EXCEPT !.last[key] =
                        [kind |-> "set", value |-> value, at |-> clock,
                         ttl |-> ttl]]
    /\ UNCHANGED <<clock, authVars, sess, adm, auditVars, priceVars, req,
                   managers, http, janitor>>

\* InMemoryCache.get lines 26-35 (CacheLive, CacheAfterGet)
MGet(key) ==
    /\ cache_log' = [cache_log EXCEPT !.got =
                        [key |-> key,
                         value |-> IF CacheLive(memory_cache, key)
                                   THEN memory_cache[key].value ELSE "None",
                         at |-> clock]]
    /\ memory_cache' = CacheAfterGet(memory_cache, key)
    /\ UNCHANGED <<clock, authVars, sess, adm, auditVars, priceVars, req,
                   managers, http, janitor>>

MDelete(key) ==
    /\ memory_cache' = CacheDelete(memory_cache, key)
    /\ cache_log' = [cache_log EXCEPT !.last[key] =
                        [NoOp EXCEPT !.kind = "delete", !.at = clock]]
    /\ UNCHANGED <<clock, authVars, sess, adm, auditVars, priceVars, req,
                   managers, http, janitor>>

\* _cleanup_task: asyncio.sleep(300) has returned; cleanup_expired, then
\* the next sleep.  The loop leaves only on CancelledError.
Sweep ==
    /\ janitor.task = "sleeping"
    /\ clock >= janitor.wake
    /\ memory_cache' = CleanupExpired(memory_cache)
    /\ janitor' = [janitor EXCEPT !.wake = clock + SweepInterval,
                                  !.sweeps = @ + 1]
    /\ UNCHANGED <<clock, authVars, sess, adm, auditVars, priceVars, req,
                   managers, http, cache_log>>

\* CacheManager.close / close_cache_manager: closes the Redis client when
\* there is one and drops the global; the task is not cancelled (no
\* reference to it was kept)
Close ==
    /\ ~ janitor.closed
    /\ janitor' = [janitor EXCEPT !.closed = TRUE]
    /\ UNCHANGED <<clock, authVars, sess, adm, auditVars, priceVars, req,
                   managers, http, cache_log, memory_cache>>

---------------------------------------------------------------------------
(* The HTTP routes of server.py other than /analyze.  Every handler body   *)
(* is one try block closed by "except Exception"; HTTPException derives    *)
(* from Exception, so an HTTPException raised inside the block reaches the *)
(* handler's own except clause.                                            *)

\* the component managers in the order startup_event assigns them; an
\* exception in startup is caught and leaves the later ones None
Managers == <<"price_manager", "ai_manager", "db_manager", "admin_manager">>

Initialised(name) == \E i \in 1..managers : Managers[i] = name

Routes == {"gold-price", "forex-price", "admin/dashboard", "admin/users",
           "admin/user", "admin/toggle-status", "admin/update-tier",
           "admin/analysis-logs", "admin/system-status"}

AdminRoutes == { r \in Routes : r \notin {"gold-price", "forex-price"} }

\* a pair of ForexManager.CURRENCY_PAIRS and one that is not
PairInputs == {"EUR/USD", "XXXYYY"}
SupportedPairs == {"EUR/USD"}

\* the Authorization header of a request: absent, or the token admin_login
\* hands out
AdminToken == "admin_token_placeholder"
TokenInputs == {"none", AdminToken}

\* AdminManager.get_user_details: None when no document is found, and None
\* from its except clause when User.from_dict raises
GetUserDetails(user_id) ==
    UserExists(user_id) /\ ~ FromDict(users[user_id]).raised

\* the status of the HTTPException raised inside the handler's try block;
\* 0 when the block raises none
RaisedIn(route, pair, user_id) ==
    CASE route = "gold-price" ->
            IF Initialised("price_manager") THEN 0 ELSE 503
      [] route = "forex-price" ->
            IF pair \in SupportedPairs THEN 0 ELSE 404
      [] route = "admin/user" ->
            IF ~ Initialised("admin_manager") THEN 503
            ELSE IF ~ GetUserDetails(user_id) THEN 404 ELSE 0
      [] route = "admin/system-status" -> 0
      [] OTHER ->
            IF Initialised("admin_manager") THEN 0 ELSE 503

\* the routes whose except clause raises HTTPException(500); the others
\* return a body with success False
ReraiseRoutes == {"forex-price", "admin/dashboard", "admin/users",
                  "admin/user", "admin/analysis-logs"}

\* the status line the client receives
ClientStatus(route, raised) ==
    IF raised = 0 THEN 200
    ELSE IF route \in ReraiseRoutes THEN 500
    ELSE 200

\* issued is history: admin_login has handed out the token
HttpIdle == [route |-> "none", pair |-> "none", user_id |-> NoUser,
             token |-> "none", raised |-> 0, status |-> 0,
             served |-> FALSE, success |-> FALSE, issued |-> FALSE]

\* one request to a route; served: the handler ran the operation behind
\* the route and answered with its result
Request(route, pair, user_id, token) ==
    /\ LET raised == RaisedIn(route, pair, user_id)
       IN http' = [HttpIdle EXCEPT !.route = route, !.pair = pair,
                                   !.user_id = user_id, !.token = token,
                                   !.raised = raised,
                                   !.status = ClientStatus(route, raised),
                                   !.served = (raised = 0),
                                   !.success = (raised = 0),
                                   !.issued = http.issued]
    /\ UNCHANGED <<clock, authVars, sess, adm, auditVars, priceVars,
                   memory_cache, req, managers, cache_log, janitor>>

UsernameInputs == {"admin", "root"}
AdminPasswordInputs == {"GOLD_NIGHTMARE_205", "wrong_password"}

\* POST /admin/login
AdminLogin(username, password) ==
    /\ LET ok == username = "admin" /\ password = "GOLD_NIGHTMARE_205"
       IN http' = [HttpIdle EXCEPT !.route = "admin/login",
                                   !.status = 200,
                                   !.served = TRUE,
                                   !.success = ok,
                                   !.token = IF ok THEN AdminToken ELSE "none",
                                   !.issued = http.issued \/ ok]
    /\ UNCHANGED <<clock, authVars, sess, adm, auditVars, priceVars,
                   memory_cache, req, managers, cache_log, janitor>>

\* the state of the variables of this section after a startup that
\* assigned every manager
WebStart == managers = Len(Managers) /\ http = HttpIdle /\ CacheStart

---------------------------------------------------------------------------
(* The clock *)

\* time passes in thirds of the price cache's duration
TickSeconds == CacheDuration \div 3

Tick ==
    /\ clock % SecondsPerDay < MaxTicks * TickSeconds
    /\ clock' = clock + TickSeconds
    /\ UNCHANGED <<webVars, authVars, sess, adm, auditVars, priceVars, memory_cache, req>>

\* the clock passes midnight UTC
NextDay ==
    /\ Today < MaxDay
    /\ clock' = (Today + 1) * SecondsPerDay
    /\ UNCHANGED <<webVars, authVars, sess, adm, auditVars, priceVars, memory_cache, req>>

---------------------------------------------------------------------------
(* Initial state: after construction of the managers, with an empty store *)

Init ==
    /\ clock = 0
    /\ users = << >>
    /\ user_counter = FirstUserId
    /\ reg = [p \in RegProcs |-> RegIdle]
    /\ loginResp = NoLogin
    /\ sess = [s \in SessProcs |-> SessIdle]
    /\ adm = AdmIdle
    /\ analysis_logs = << >>
    /\ daily_summaries = << >>
    /\ gold_cache = [price |-> NoQuote, timestamp |-> 0]
    /\ pcall = [c \in Callers |-> PIdle]
    /\ last_event = "none"
    /\ memory_cache = << >>
    /\ req = [q \in Callers |-> ReqIdle]
    /\ WebStart

(* Registration and login *)
AuthNext ==
    \/ \E p \in RegProcs, e \in EmailInputs, pw \in PasswordInputs : RegStart(p, e, pw)
    \/ \E p \in RegProcs, salt \in Salts : RegBuild(p, salt)
    \/ \E p \in RegProcs : RegInsert(p)
    \/ \E p \in RegProcs : RegFinish(p)
    \/ \E e \in EmailInputs, pw \in PasswordInputs : Login(e, pw)

AuthSpec == Init /\ [][AuthNext]_vars

(* One registration, then quota-gated analysis runs racing each other *)
GoodEmail == <<"a", "@", "x", ".", "c", "o">>
GoodPassword == <<"a", "b", "c", "1", "2", "3">>

RegisterOne ==
    \/ RegStart(1, GoodEmail, GoodPassword)
    \/ \E salt \in Salts : RegBuild(1, salt)
    \/ RegInsert(1)
    \/ RegFinish(1)

(* Registered users, quota checks and admin operations.  With every stored *)
(* document carrying "_id", get_user_by_id and the admin reads never hand  *)
(* a User on, so the steps behind them (SessLLM, SessRecordRead,           *)
(* SessRecordWrite, AdminWrite, AdminLog) are enabled in no reachable      *)
(* state and are not part of the next-state relation.                      *)
QuotaNext ==
    \/ RegisterOne
    \/ \E s \in SessProcs, id \in UserIdInputs : SessCheck(s, id)
    \/ \E id \in UserIdInputs : ToggleRead(id)
    \/ \E id \in UserIdInputs, t \in TierInputs : TierRead(id, t)
    \/ \E id \in UserIdInputs, t \in TierInputs : SubscriptionRead(id, t)
    \/ NextDay

QuotaSpec == Init /\ [][QuotaNext]_vars

(* POST /analyze for registered and unregistered users.  The providers    *)
(* answer with an error or with a quote of 1000 USD.                       *)
AnalyzeResponses ==
    { resp \in Responses :
        \/ resp.status = 500
        \/ /\ resp.json /\ resp.ok /\ resp.has
           /\ resp.value \in {Num(1000, 1), Num(1, 1000)} }

\* the registered user and an id that is never registered
AnalyzeUserIds == {FirstUserId, FirstUserId + 1}

AnalyzeNext ==
    \/ RegisterOne
    \/ \E q \in Callers, id \in AnalyzeUserIds, t \in TypeInputs :
          AnalyzeStart(q, id, t)
    \/ \E q \in Callers, resp \in AnalyzeResponses : PFetch(q, resp)
    \/ \E q \in Callers : AnalyzeGotPrice(q)
    \/ \E q \in Callers, reply \in LlmReplies : AnalyzeLLM(q, reply)
    \/ \E q \in Callers : AnalyzeLog(q)

AnalyzeSpec == Init /\ [][AnalyzeNext]_vars

(* The price manager under concurrent callers of GET /gold-price *)
PriceNext ==
    \/ \E c \in Callers : PStart(c, TRUE)
    \/ \E c \in Callers, resp \in Responses : PFetch(c, resp)
    \/ Tick

PriceSpec == Init /\ [][PriceNext]_vars

(* A service started on a users collection that already holds a user.     *)
(* The collection outlives the process: AuthManager.initialize reads the   *)
(* stored user with the highest user_id and continues the counter after    *)
(* it.  The stored user may have any tier and any status (no code path     *)
(* sets blocked or suspended, so such users are there only from before),   *)
(* any count of the day up to the largest limit, and a count date that is  *)
(* absent or the first day.                                                *)
StoredUser(tier, status, count, date) ==
    Stored([NewUser(FirstUserId, GoodEmail,
                    HashPassword(GoodPassword, <<"1", "a">>))
              EXCEPT !.tier = tier, !.status = status,
                     !.daily_analyses_count = count,
                     !.total_analyses = count,
                     !.daily_analyses_date = date])

StoreInit ==
    /\ clock = 0
    /\ \E tier \in UserTier, status \in UserStatus,
          count \in 0..PremiumDailyLimit, date \in {NoDate, 0} :
          users = (FirstUserId :> StoredUser(tier, status, count, date))
    /\ user_counter = FirstUserId + 1
    /\ reg = [p \in RegProcs |-> RegIdle]
    /\ loginResp = NoLogin
    /\ sess = [s \in SessProcs |-> SessIdle]
    /\ adm = AdmIdle
    /\ analysis_logs = << >>
    /\ daily_summaries = << >>
    /\ gold_cache = [price |-> NoQuote, timestamp |-> 0]
    /\ pcall = [c \in Callers |-> PIdle]
    /\ last_event = "none"
    /\ memory_cache = << >>
    /\ req = [q \in Callers |-> ReqIdle]
    /\ WebStart

\* the stored user's id and an id that is not stored
StoreUserIds == {FirstUserId, FirstUserId + 1}

StoreNext ==
    \/ \E s \in SessProcs, id \in StoreUserIds : SessCheck(s, id)
    \/ \E s \in SessProcs, id \in StoreUserIds : RecordAnalysis(s, id)
    \/ \E pw \in PasswordInputs : Login(GoodEmail, pw)
    \/ \E id \in StoreUserIds : ToggleRead(id)
    \/ NextDay

StoreSpec == StoreInit /\ [][StoreNext]_vars

(* The HTTP routes after a startup that may have failed part way *)
HttpInit ==
    /\ clock = 0
    /\ users = << >>
    /\ user_counter = FirstUserId
    /\ reg = [p \in RegProcs |-> RegIdle]
    /\ loginResp = NoLogin
    /\ sess = [s \in SessProcs |-> SessIdle]
    /\ adm = AdmIdle
    /\ analysis_logs = << >>
    /\ daily_summaries = << >>
    /\ gold_cache = [price |-> NoQuote, timestamp |-> 0]
    /\ pcall = [c \in Callers |-> PIdle]
    /\ last_event = "none"
    /\ memory_cache = << >>
    /\ req = [q \in Callers |-> ReqIdle]
    /\ managers \in 0..Len(Managers)
    /\ http = HttpIdle
    /\ CacheStart

HttpNext ==
    \/ RegisterOne
    \/ \E route \in Routes, pair \in PairInputs, id \in StoreUserIds,
          token \in TokenInputs : Request(route, pair, id, token)
    \/ \E u \in UsernameInputs, pw \in AdminPasswordInputs : AdminLogin(u, pw)

HttpSpec == HttpInit /\ [][HttpNext]_vars

(* The in-process cache under its callers, the janitor and the clock *)
CacheNext ==
    \/ \E k \in CacheKeyInputs, v \in CacheValueInputs, ttl \in TtlInputs :
          MSet(k, v, ttl)
    \/ \E k \in CacheKeyInputs : MGet(k)
    \/ \E k \in CacheKeyInputs : MDelete(k)
    \/ Sweep
    \/ Close
    \/ Tick

CacheSpec == Init /\ [][CacheNext]_vars

---------------------------------------------------------------------------
(* Claims *)

\* the requests made for a stored user that returned a successful analysis
\* produced by a fresh LLM call
FreshSuccesses(id) ==
    { q \in Callers : /\ req[q].pc = "done" /\ req[q].user_id = id
                      /\ req[q].known /\ req[q].success
                      /\ req[q].llm_called /\ ~ req[q].cached }

\* C1: for every stored user of a limited tier, the analyze requests made
\* for that user within the day that returned a successful analysis
\* produced by a fresh LLM call number at most the tier's daily limit.
C1_FreshSuccessesWithinDailyLimit ==
    \A id \in DOMAIN users :
        GetDailyLimit(users[id]) # Unlimited
        => Cardinality(FreshSuccesses(id)) <= GetDailyLimit(users[id])

\* C3: an analyze request with a valid analysis type for a user whom
\* can_user_analyze denied when the request arrived is answered with
\* success = false, has made no LLM call and has written no AnalysisLog
\* with success = true.
C3_DeniedRequestDoesNothing ==
    \A q \in Callers :
        ( /\ req[q].pc = "done"
          /\ req[q].analysis_type \in AnalysisType
          /\ ~ req[q].permitted )
        => /\ ~ req[q].success
           /\ ~ req[q].llm_called
           /\ req[q].logged # "success"

\* C4: once every analyze request has been answered, each stored user's
\* total_analyses and daily_count equal the number of requests for that
\* user that succeeded through a fresh LLM call (one increment per
\* cache-miss success, none for a request served from the analysis cache).
C4_FreshSuccessCountsOnce ==
    (\A q \in Callers : req[q].pc \in {"idle", "done"})
    => \A id \in DOMAIN users :
          /\ users[id].total_analyses = Cardinality(FreshSuccesses(id))
          /\ users[id].daily_analyses_count = Cardinality(FreshSuccesses(id))

\* C2: when two analyses of the same stored, active, basic-tier user whose
\* daily_count was 0 have both run to their end, at most one of them has
\* succeeded (its analysis recorded) and the stored daily_count is exactly 1.
C2_AtMostOneConcurrentSuccess ==
    \A s1, s2 \in SessProcs :
        ( /\ s1 # s2
          /\ sess[s1].pc \in SessEnded /\ sess[s2].pc \in SessEnded
          /\ sess[s1].user_id = sess[s2].user_id
          /\ sess[s1].day = Today /\ sess[s2].day = Today
          /\ UserExists(sess[s1].user_id)
          /\ users[sess[s1].user_id].tier = "basic"
          /\ users[sess[s1].user_id].status = "active" )
        => /\ ~ (sess[s1].recorded /\ sess[s2].recorded)
           /\ users[sess[s1].user_id].daily_analyses_count = 1

\* C5: an update-tier request that names a stored user and a valid tier is
\* answered with success, and after it can_user_analyze reports the new
\* tier's full daily limit as remaining and allows an active user.
C5_TierUpdateRestoresFullQuota ==
    ( /\ adm.op = "tier" /\ adm.pc = "done"
      /\ adm.new_tier \in UserTier
      /\ UserExists(adm.user_id) )
    => /\ adm.success
       /\ users[adm.user_id].tier = adm.new_tier
       /\ LET c == CanUserAnalyze(adm.user_id)
          IN /\ c.reason # "inactive"
                  => c.remaining = GetDailyLimit(users[adm.user_id])
             /\ users[adm.user_id].status = "active" => c.allowed

\* C6: after register(email, pw) has succeeded, and while that user is
\* active, a login with that e-mail succeeds exactly when the password is
\* pw, a successful login returns the registered user_id, and a failed
\* login leaves every stored user (last_seen included) unchanged.
C6_LoginMatchesRegistration ==
    [][ \A p \in RegProcs, pw \in PasswordInputs :
          ( /\ reg[p].pc = "done" /\ reg[p].success
            /\ users[reg[p].user_id].status = "active"
            /\ Login(reg[p].email, pw) )
          => /\ loginResp'.success = (pw = reg[p].password)
             /\ loginResp'.success => loginResp'.user_id = reg[p].user_id
             /\ ~ loginResp'.success => users' = users ]_vars

\* The range the claims name for a quote's price_usd
InClaimedRange(price_usd) ==
    Leq(Num(1000, 1), price_usd) /\ Leq(price_usd, Num(5000, 1))

\* The step in which caller c returns from the providers or the fallbacks
Returns(c, how) == pcall[c].pc = "fetch" /\ pcall'[c].outcome = how

\* C7: every quote get_current_price has returned has 1000 <= price_usd
\* <= 5000 or carries the fallback notice as its source; a quote returned
\* from a provider is within the range, and so is the price held by the
\* manager's cache and by the cache manager whenever they hold a quote.
C7_ReturnedQuotesValid ==
    /\ \A c \in Callers :
          pcall[c].pc = "done" =>
             /\ \/ InClaimedRange(pcall[c].result.price_usd)
                \/ pcall[c].result.source = StaleMarker
             /\ pcall[c].outcome = "fresh" =>
                   InClaimedRange(pcall[c].result.price_usd)
    /\ gold_cache.price # NoQuote => InClaimedRange(gold_cache.price.price_usd)
    /\ GoldPriceKey \in DOMAIN memory_cache =>
          InClaimedRange(memory_cache[GoldPriceKey].value.price_usd)

\* C7 witness: a call has returned the boundary price 5000 from the second
\* provider (whose rate 1/5000 was inverted) after the first provider failed.
C7_Witness ==
    \E c \in Callers :
        /\ pcall[c].outcome = "fresh"
        /\ Len(pcall[c].contacted) = 2
        /\ pcall[c].result.price_usd = Num(5000, 1)
        /\ pcall[c].result.source = "Metals-API"
        /\ gold_cache.price = pcall[c].result

\* C8: in every call the i-th provider contacted is the active provider
\* with the i-th lowest priority number, every provider contacted before the
\* last one failed, a call still asking has seen only failures, a call that
\* returned a fresh quote returned the quote of the last provider contacted
\* and contacted nobody after it, and the step that returns a fresh quote
\* stores that quote in the cache with the call's now as its timestamp.
C8_ProvidersInPriorityOrder ==
    /\ [] \A c \in Callers :
            LET call == pcall[c]
                n == Len(call.contacted)
                active == {a \in DOMAIN Apis : Apis[a].active}
            IN /\ \A i \in 1..n :
                     /\ call.contacted[i].api \in active
                     /\ Cardinality({a \in active : Apis[a].priority
                           < Apis[call.contacted[i].api].priority}) = i - 1
               /\ \A i \in 1..(n - 1) : ~ call.contacted[i].valid
               /\ call.pc = "fetch" => \A i \in 1..n : ~ call.contacted[i].valid
               /\ call.outcome = "fresh" =>
                     /\ call.pc = "done"
                     /\ n >= 1
                     /\ call.contacted[n].valid
                     /\ call.result.source = SourceOf(call.contacted[n].api)
               /\ call.outcome = "hit" => n = 0
    /\ [][ \A c \in Callers :
             Returns(c, "fresh") =>
                gold_cache' = [price |-> pcall'[c].result,
                               timestamp |-> pcall[c].now] ]_vars

\* C8 witness: a call returned the third provider's quote after two
\* failures, the cache holds that quote stamped with the call's start time,
\* and time has passed since the call started.
C8_Witness ==
    \E c \in Callers :
        /\ pcall[c].outcome = "fresh"
        /\ Len(pcall[c].contacted) = 3
        /\ pcall[c].result.source = "metalpriceapi.com"
        /\ gold_cache = [price |-> pcall[c].result, timestamp |-> pcall[c].now]
        /\ clock > pcall[c].now

\* C9 (as claimed): a call in which every provider failed while the cache
\* held a quote returns the cached price_usd with the fallback notice as
\* source and leaves the cache timestamp alone, and the next call after it
\* goes to the providers (is not served from the cache).
C9_ProvidersAgainOnNextCall ==
    [][ /\ \A c \in Callers :
             Returns(c, "stale") =>
                /\ pcall'[c].result.price_usd = gold_cache.price.price_usd
                /\ pcall'[c].result.source = StaleMarker
                /\ gold_cache'.timestamp = gold_cache.timestamp
        /\ last_event = "stale" => last_event' # "hit" ]_vars

\* C9 (amended): as above, with the next call going to the providers
\* whenever the cache timestamp is still at least 900 s old, that is,
\* unless a concurrent call stored a fresh quote while this call was asking
\* the providers.
C9_StaleFallbackKeepsAge ==
    [][ /\ \A c \in Callers :
             Returns(c, "stale") =>
                /\ pcall'[c].result.price_usd = gold_cache.price.price_usd
                /\ pcall'[c].result.source = StaleMarker
                /\ gold_cache'.price.price_usd = gold_cache.price.price_usd
                /\ gold_cache'.timestamp = gold_cache.timestamp
        /\ (last_event = "stale" /\ clock - gold_cache.timestamp >= 900)
              => last_event' # "hit" ]_vars

\* C9 witness: a call returned the expired cached quote with the notice,
\* and the next call, the latest event, has gone on to the providers.
C9_Witness ==
    \E c, d \in Callers :
        /\ pcall[c].outcome = "stale"
        /\ InClaimedRange(pcall[c].result.price_usd)
        /\ pcall[c].result = gold_cache.price
        /\ pcall[c].now - gold_cache.timestamp >= 900
        /\ pcall[d].pc = "fetch"
        /\ pcall[d].contacted = << >>
        /\ last_event = "miss"

\* C10: a call that starts while the cache holds a quote younger than
\* 900 s returns that very quote at once, contacts no provider and leaves
\* the cache alone; a call that starts with an empty cache or a quote aged
\* 900 s or more goes to the providers; the cached price_usd changes only
\* in a step in which a call returns it as a fresh or placeholder quote; and
\* a call that returned an expired quote had asked every provider first.
C10_CacheServedWithinTtl ==
    /\ [][ /\ \A c \in Callers :
                ( pcall[c].pc \in {"idle", "done"} /\ pcall'[c] # pcall[c] ) =>
                   IF gold_cache.price # NoQuote
                      /\ clock - gold_cache.timestamp < 900
                   THEN /\ pcall'[c].pc = "done"
                        /\ pcall'[c].outcome = "hit"
                        /\ pcall'[c].result = gold_cache.price
                        /\ pcall'[c].contacted = << >>
                        /\ gold_cache' = gold_cache
                   ELSE /\ pcall'[c].pc = "fetch"
                        /\ pcall'[c].outcome = "none"
           /\ gold_cache'.price.price_usd # gold_cache.price.price_usd =>
                \E c \in Callers :
                    /\ Returns(c, "fresh") \/ Returns(c, "demo")
                    /\ pcall'[c].result.price_usd = gold_cache'.price.price_usd ]_vars
    /\ [] \A c \in Callers :
            pcall[c].outcome = "stale" =>
               Len(pcall[c].contacted) = Cardinality({a \in DOMAIN Apis : Apis[a].active})

\* C10 witness: one call was served from the cache at age 600 s while
\* another, started at age 900 s, is asking the first provider.
C10_Witness ==
    \E c, d \in Callers :
        /\ pcall[c].outcome = "hit"
        /\ pcall[c].now - gold_cache.timestamp = 600
        /\ pcall[c].result.price_usd = gold_cache.price.price_usd
        /\ pcall[d].pc = "fetch"
        /\ pcall[d].now - gold_cache.timestamp = 900

\* C11: a request whose body (user, kind) equals that of a request answered
\* with an analysis less than the analysis cache's TTL (1800 s) before is
\* answered with an analysis too and without a call of the LLM, whether or
\* not the gold price was fetched again in between.
C11_RepeatServedFromCache ==
    \A q \in Callers :
        (req[q].repeat /\ req[q].pc \in {"log", "done"})
            => (req[q].analysis /\ ~ req[q].llm_called)

\* the /analyze requests with a valid kind that have been answered
Answered == { q \in Callers : req[q].pc = "done"
                              /\ req[q].analysis_type \in AnalysisType }

C14_NewDayRestoresFullQuota ==
    \A id \in DOMAIN users :
        LET u == users[id]
        IN (u.status = "active" /\ u.tier \in {"basic", "premium"}
              /\ u.daily_analyses_date # Today)
           => /\ CanUserAnalyze(id).allowed
              /\ CanUserAnalyze(id).remaining = GetDailyLimit(u)
              /\ \A s \in SessProcs :
                    (sess[s].pc = "write" /\ sess[s].user_id = id
                        /\ sess[s].day = Today)
                    => /\ sess[s].doc.daily_analyses_date = Today
                       /\ sess[s].doc.daily_analyses_count = 1

StoredUnder(email) == { id \in DOMAIN users : Lower(users[id].email) = Lower(email) }

\* C17: no two stored users have e-mails that are equal after lowercasing
\* and every stored e-mail is lowercase; a register call whose lowercased
\* e-mail is that of a stored user is rejected and adds no user.
C17_EmailsUniqueIgnoringCase ==
    [][ /\ \A i, j \in DOMAIN users' :
             Lower(users'[i].email) = Lower(users'[j].email) => i = j
        /\ \A i \in DOMAIN users' : users'[i].email = Lower(users'[i].email)
        /\ \A p \in RegProcs :
             /\ \A e \in EmailInputs, pw \in PasswordInputs :
                   (RegStart(p, e, pw) /\ StoredUnder(e) # {})
                   => /\ reg'[p].pc \in {"checked", "done"}
                      /\ ~ reg'[p].success
                      /\ users' = users
             /\ (reg[p].pc \in {"checked", "built"} /\ reg'[p] # reg[p]
                    /\ StoredUnder(reg[p].email) # {})
                => /\ reg'[p].pc \in {"built", "done"}
                   /\ reg[p].pc = "built" => reg'[p].pc = "done"
                   /\ ~ reg'[p].success
                   /\ users' = users
      ]_vars

\* a call with an e-mail in capitals, refused by insert_one while the same
\* e-mail in lowercase is the only stored one
C17_Witness ==
    \E p, o \in RegProcs :
        /\ reg[p].pc = "done" /\ reg[p].error = "exception"
        /\ reg[p].email # Lower(reg[p].email)
        /\ reg[o].pc = "done" /\ reg[o].success
        /\ reg[o].email = Lower(reg[p].email)
        /\ DOMAIN users = {reg[o].user_id}
        /\ user_counter = FirstUserId + 1

\* C18: a register call is rejected, with no user inserted and the id
\* counter unchanged, when the e-mail fails the pattern or the password is
\* shorter than 6 characters, has no letter or has no digit; a call that
\* passes these checks with an e-mail no stored user has inserts exactly
\* one user, with tier basic and status active, and answers success with
\* remaining_today = 1.
C18_RegisterValidatesThenCreates ==
    [][ \A p \in RegProcs :
          /\ \A e \in EmailInputs, pw \in PasswordInputs :
                (RegStart(p, e, pw) /\ ~ ValidateEmail(e))
                => /\ reg'[p].pc = "done" /\ ~ reg'[p].success
                   /\ users' = users /\ user_counter' = user_counter
          /\ (reg[p].pc = "checked" /\ reg'[p].pc # "checked"
                 /\ ValidatePassword(reg[p].password) # "")
             => /\ reg'[p].pc = "done" /\ ~ reg'[p].success
                /\ users' = users /\ user_counter' = user_counter
          /\ (reg[p].pc = "checked" /\ reg'[p].pc # "checked"
                 /\ ValidatePassword(reg[p].password) = "")
             => (reg'[p].pc = "built" /\ users' = users)
          /\ (reg[p].pc = "built" /\ reg'[p].pc # "built"
                 /\ StoredUnder(reg[p].email) = {})
             => \E id \in DOMAIN users' \ DOMAIN users :
                   /\ DOMAIN users' = DOMAIN users \cup {id}
                   /\ \A o \in DOMAIN users : users'[o] = users[o]
                   /\ users'[id].email = Lower(reg[p].email)
                   /\ users'[id].tier = "basic"
                   /\ users'[id].status = "active"
          /\ (reg[p].pc = "inserted" /\ reg'[p].pc # "inserted")
             => /\ reg'[p].pc = "done" /\ reg'[p].success
                /\ reg'[p].remaining = BasicDailyLimit
      ]_vars

\* C19: toggle_user_status on a stored user whose status is active or
\* inactive does not answer with an error and sets the status to the other
\* of the two; on a user whose status is blocked or suspended it answers
\* with an error; it never changes tier, daily count or total.
C19_ToggleFlipsActiveInactive ==
    (adm.op = "toggle" /\ adm.pc # "idle" /\ UserExists(adm.user_id))
    => LET u == users[adm.user_id]
       IN /\ u.status \in {"blocked", "suspended"}
             => (adm.pc = "done" /\ ~ adm.success)
          /\ (u.status \in {"active", "inactive"} /\ adm.pc = "done")
             => adm.success
          /\ adm.pc = "loaded"
             => /\ adm.doc.status = ToggledStatus(u)
                /\ adm.doc.tier = u.tier
                /\ adm.doc.daily_analyses_count = u.daily_analyses_count
                /\ adm.doc.total_analyses = u.total_analyses

\* the positions of the successful logs of a kind for a user
SuccessLogs(user_id, kind) ==
    { i \in DOMAIN analysis_logs :
        /\ analysis_logs[i].user_id = user_id
        /\ analysis_logs[i].analysis_type = kind
        /\ analysis_logs[i].success }

\* the sum of the processing times of the logs at the given positions
RECURSIVE SumTimes(_)
SumTimes(I) ==
    IF I = {} THEN 0
    ELSE LET i == CHOOSE x \in I : TRUE
         IN analysis_logs[i].processing_time + SumTimes(I \ {i})

\* C20: after N >= 1 successful logs of kind K for user U on the current
\* date, the daily summary of (U, date) has total_requests >= N, the
\* counter of K >= N and successful_analyses >= N; when these are the only
\* logs of U, avg_response_time is the mean of their processing times.
C20_SummaryCountsEveryLog ==
    \A kind \in AnalysisType :
        LET I == SuccessLogs(WebUser, kind)
            N == Cardinality(I)
            key == <<WebUser, Today>>
        IN N >= 1
           => /\ key \in DOMAIN daily_summaries
              /\ daily_summaries[key].total_requests >= N
              /\ daily_summaries[key].by_type[kind] >= N
              /\ daily_summaries[key].successful_analyses >= N
              /\ (\A i \in DOMAIN analysis_logs :
                     analysis_logs[i].user_id = WebUser => i \in I)
                 => daily_summaries[key].avg_response_time.num * N
                      = SumTimes(I) * daily_summaries[key].avg_response_time.den

\* C21: the status a handler raises for a mapped condition is the status
\* the client receives: 503 for a dependency that is not initialised, 404
\* for an unsupported forex pair or an unknown user id.
C21_RaisedStatusReachesClient ==
    http.raised # 0 => http.status = http.raised

\* C22: admin login succeeds only for admin / GOLD_NIGHTMARE_205, and a
\* request to any other /admin/* route is served only when it carries the
\* token that a successful admin login handed out.
C22_AdminRoutesNeedToken ==
    /\ (http.route = "admin/login" /\ http.success) => http.issued
    /\ (http.route \in AdminRoutes /\ http.served)
       => (http.issued /\ http.token = AdminToken)

\* C23: when record_analysis for a stored user with quota left and
\* toggle_user_status for the same user (active or inactive) have both
\* returned, in whichever order their steps ran, the stored record shows
\* both: total_analyses is one more than record_analysis found and today's
\* count is at least 1, and the status is the other one than the toggle
\* found.
C23_CounterAndAdminWritesBothKept ==
    \A s \in SessProcs :
        LET id == sess[s].user_id
            b == sess[s].before
        IN (/\ sess[s].pc = "done" /\ UserExists(id) /\ b # NoDoc
            /\ \/ b.tier = "vip"
               \/ b.daily_analyses_date # sess[s].day
               \/ b.daily_analyses_count < GetDailyLimit(b)
            /\ adm.op = "toggle" /\ adm.pc = "done" /\ adm.user_id = id
            /\ adm.was \in {"active", "inactive"})
           => /\ users[id].total_analyses = b.total_analyses + 1
              /\ users[id].daily_analyses_date = sess[s].day
              /\ users[id].daily_analyses_count >= 1
              /\ users[id].status = ToggledStatus([status |-> adm.was])

\* C24: an analysis written by cache_analysis(u, a, fp) is, until its TTL
\* expires, returned by get_cached_analysis(u, a.kind, fp) with the same
\* user_id and kind, and the cached value stores the kind as its lowercase
\* string.
C24_CachedAnalysisRoundTrip ==
    \A k \in DOMAIN memory_cache :
        (k[1] = "analysis" /\ CacheLive(memory_cache, k))
        => /\ memory_cache[k].value.analysis_type = k[3]
           /\ memory_cache[k].value.user_id = k[2]
           /\ GetCachedAnalysis(memory_cache, k[2], k[3], k[4])

\* what the history says a get of the key must return now
Expected(key) ==
    LET op == cache_log.last[key]
    IN IF op.kind = "set" /\ clock - op.at < op.ttl THEN op.value ELSE "None"

\* C25: get(k) returns v exactly when the most recent set on k was
\* set(k, v, ttl), no delete(k) followed it and less than ttl seconds have
\* passed since; a value past its expiry is never returned, swept or not;
\* a sweep removes no unexpired entry.
C25_GetReturnsLatestLiveSet ==
    [][ /\ \A k \in CacheKeyInputs :
             MGet(k) => cache_log'.got.value = Expected(k)
        /\ Sweep => \A k \in CacheKeyInputs :
                       Expected(k) # "None"
                       => /\ k \in DOMAIN memory_cache'
                          /\ memory_cache'[k].value = Expected(k)
      ]_vars

\* a get that found an entry past its expiry, not yet swept, and returned
\* None, while the other key is still served after one sweep
C25_Witness ==
    \E k, o \in CacheKeyInputs :
        /\ cache_log.got.key = k /\ cache_log.got.value = "None"
        /\ cache_log.got.at = clock
        /\ cache_log.last[k].kind = "set"
        /\ clock - cache_log.last[k].at >= cache_log.last[k].ttl
        /\ o # k /\ Expected(o) # "None" /\ o \in DOMAIN memory_cache
        /\ janitor.sweeps >= 1

\* the registrations that have had their document accepted by the store
Registered == { p \in RegProcs : reg[p].pc = "inserted"
                                  \/ (reg[p].pc = "done" /\ reg[p].success) }

\* C26: the stored users have pairwise distinct user_id values, all at
\* least 1000, and every registration that succeeds is given a user_id
\* greater than every user_id given out before it, whatever the
\* interleaving of the register calls.
C26_UserIdsDistinctAndIncreasing ==
    [][ /\ \A i \in DOMAIN users' :
             users'[i].user_id = i /\ i >= FirstUserId
        /\ \A p, o \in Registered' :
             reg'[p].user_id = reg'[o].user_id => p = o
        /\ \A p \in Registered' : reg'[p].user_id \in DOMAIN users'
        /\ \A p \in RegProcs :
             (reg[p].pc = "built" /\ reg'[p].pc = "inserted")
             => /\ \A i \in DOMAIN users :
                       reg[p].user_id > i /\ users'[i] = users[i]
                /\ DOMAIN users' = DOMAIN users \cup {reg[p].user_id}
                /\ Cardinality(DOMAIN users') = Cardinality(DOMAIN users) + 1
      ]_vars

\* both register calls have succeeded, with ids 1000 and 1001
C26_Witness ==
    /\ \A p \in RegProcs : reg[p].pc = "done" /\ reg[p].success
    /\ reg[1].user_id = FirstUserId
    /\ reg[2].user_id = FirstUserId + 1
    /\ DOMAIN users = {FirstUserId, FirstUserId + 1}
    /\ user_counter = FirstUserId + 2

\* C27: a register call with a well-formed e-mail that no stored user and
\* no other register call has, and with a valid password, is answered with
\* success, whatever the interleaving with the other register calls.
C27_DistinctEmailsAllSucceed ==
    \A p \in RegProcs :
        ( /\ reg[p].pc = "done"
          /\ ValidateEmail(reg[p].email)
          /\ ValidatePassword(reg[p].password) = ""
          /\ \A o \in RegProcs \ {p} :
                Lower(reg[o].email) # Lower(reg[p].email) )
        => reg[p].success

C29_PlaceholderNotServedFromCache ==
    [][ \A c \in Callers :
          (last_event = "demo" /\ PStart(c, TRUE))
          => /\ last_event' = "miss"
             /\ pcall'[c].pc = "fetch" ]_vars

\* C30: once the cache manager has been closed, the janitor task makes no
\* further sweep of the in-process map.
C30_NoSweepAfterClose ==
    [][ janitor.closed
          => /\ janitor'.sweeps = janitor.sweeps
             /\ janitor'.closed ]_vars


====
